---- MODULE Spec2Model ----
(***************************************************************************)
(* Model of src/spotify/client.rs: the identifier resolver                 *)
(* (get_id / get_uri), the request dispatcher (internal_call and the       *)
(* get/post/put/delete wrappers), the decode step (convert_result) and     *)
(* the endpoint methods built on them.                                     *)
(*                                                                         *)
(* Strings are finite sequences of atoms.  An atom is either one of the    *)
(* one-character delimiters ":" "/" "?" "=" "&" "," or a delimiter-free    *)
(* word ("spotify", "track", "x", ...).  The word atoms are chosen         *)
(* prefix-free, so a sequence of atoms stands for exactly one Rust string  *)
(* (the concatenation of its atoms), str::split on a delimiter is a split  *)
(* of the sequence at that atom, and equality of strings is equality of    *)
(* sequences.                                                              *)
(***************************************************************************)
EXTENDS Integers, Sequences, FiniteSets, TLC

\* ------------------------------------------------------------------ bounds
\* longest identifier string handed to get_id / get_uri
MaxLen == 7
\* number of requests one client dispatches in a behaviour
MaxCalls == 2

\* --------------------------------------------------------------- constants
None == "None"

\* super::spotify_enum::Type, the resource kinds
Type == {"Track", "Artist", "Album", "Playlist", "User"}

\* Type::as_str: the lowercase token of a kind
as_str(t) ==
    CASE t = "Track" -> "track"
      [] t = "Artist" -> "artist"
      [] t = "Album" -> "album"
      [] t = "Playlist" -> "playlist"
      [] t = "User" -> "user"

\* the atoms identifier strings are drawn from
IdAtoms == {":", "/", "track", "artist", "x"}

\* the kinds identifier strings are resolved against
IdKinds == {"Track", "Artist"}

\* all strings of at most n atoms over the alphabet A
StringsUpTo(A, n) == UNION {[1..k -> A] : k \in 0..n}

\* ------------------------------------------------------------ str helpers
\* number of occurrences of the atom d in s
RECURSIVE Count(_, _)
Count(s, d) ==
    IF s = <<>> THEN 0
    ELSE (IF Head(s) = d THEN 1 ELSE 0) + Count(Tail(s), d)

\* str::split(d).collect::<Vec<&str>>(): the segments between occurrences
\* of d, in order; always at least one segment, "" splits to [""]
RECURSIVE split(_, _)
split(s, d) ==
    IF s = <<>> THEN << <<>> >>
    ELSE LET rest == split(Tail(s), d)
         IN IF Head(s) = d
            THEN << <<>> >> \o rest
            ELSE << <<Head(s)>> \o rest[1] >> \o Tail(rest)

\* get_id as a mutation: returns the first segment instead of the last
get_id_first(_type, _id) ==
    LET fields == split(_id, ":")
        len == Len(fields)
        sfields == split(_id, "/")
        slen == Len(sfields)
    IN IF len >= 3 /\ <<as_str(_type)>> = fields[len - 1]
       THEN fields[1]
       ELSE IF slen >= 3 /\ <<as_str(_type)>> = sfields[slen - 1]
            THEN sfields[1]
            ELSE _id

\* get_id as a mutation: the kind tag is not compared
get_id_nokind(_type, _id) ==
    LET fields == split(_id, ":")
        len == Len(fields)
        sfields == split(_id, "/")
        slen == Len(sfields)
    IN IF len >= 3
       THEN fields[len]
       ELSE IF slen >= 3
            THEN sfields[slen]
            ELSE _id

\* get_id as a mutation: the URL form is never tried
get_id_nourl(_type, _id) ==
    LET fields == split(_id, ":")
        len == Len(fields)
    IN IF len >= 3 /\ <<as_str(_type)>> = fields[len - 1]
       THEN fields[len]
       ELSE _id

\* get_id as a mutation: the forms are recognised from 2 segments on
get_id_two(_type, _id) ==
    LET fields == split(_id, ":")
        len == Len(fields)
        sfields == split(_id, "/")
        slen == Len(sfields)
    IN IF len >= 2 /\ <<as_str(_type)>> = fields[len - 1]
       THEN fields[len]
       ELSE IF slen >= 2 /\ <<as_str(_type)>> = sfields[slen - 1]
            THEN sfields[slen]
            ELSE _id

\* Spotify::get_id
get_id(_type, _id) ==
    LET fields == split(_id, ":")
        len == Len(fields)
        sfields == split(_id, "/")
        slen == Len(sfields)
    IN IF len >= 3 /\ <<as_str(_type)>> = fields[len - 1]
       THEN fields[len]
       ELSE IF slen >= 3 /\ <<as_str(_type)>> = sfields[slen - 1]
            THEN sfields[slen]
            ELSE _id

\* get_uri as a mutation: the separators are not pushed
get_uri_nosep(_type, _id) ==
    <<"spotify", as_str(_type)>> \o get_id(_type, _id)

\* Spotify::get_uri
get_uri(_type, _id) ==
    <<"spotify", ":", as_str(_type), ":">> \o get_id(_type, _id)

\* ------------------------------------------------- values of the client
\* Option<T>
NoneV == [tag |-> "None"]
Some(v) == [tag |-> "Some", value |-> v]

\* Option::unwrap_or
unwrap_or(o, d) == IF o.tag = "Some" THEN o.value ELSE d

\* the prefix Spotify::default() sets, "https://api.spotify.com/v1/"
DefaultPrefix == <<"https", ":", "/", "/", "api.spotify.com", "/", "v1", "/">>

\* the prefixes a caller sets with prefix()
Prefixes == {DefaultPrefix, <<"https", ":", "/", "/", "localhost", "/">>}

\* the bearer tokens: "static" is the one a caller configures, the others
\* are the ones the credentials manager hands out over time
StaticTokens == {"static"}
ManagerTokens == {"tokA", "tokB"}

\* response bodies: the empty body, a JSON object without the required
\* fields, and JSON texts named after the schema they have the shape of
Bodies == {"", "{}", "FullTrack", "Page"}

\* what the transport does with a request: a response with a status and a
\* body, a failure to send, or a failure while reading the body
Net ==
    [kind : {"response"}, status : {200}, body : Bodies]
        \cup [kind : {"response"}, status : {199, 299, 300, 404}, body : {"FullTrack"}]
        \cup {[kind |-> "send_failed", status |-> 0, body |-> ""]}
        \cup {[kind |-> "read_failed", status |-> 200, body |-> ""]}

\* json!({}), the empty JSON object
EmptyObject == [k \in {} |-> <<>>]

\* an empty HashMap of query parameters
NoParams == [k \in {} |-> <<>>]

\* the digit characters
Digit(d) == <<"0", "1", "2", "3", "4", "5", "6", "7", "8", "9">>[d + 1]

\* u32::to_string: the decimal digits, most significant first
RECURSIVE to_string(_)
to_string(n) ==
    IF n < 10 THEN <<Digit(n)>>
    ELSE to_string(n \div 10) \o <<Digit(n % 10)>>

\* the ways to list the keys of a HashMap: its iteration order is not
\* specified
Orders(keys) ==
    {o \in [1..Cardinality(keys) -> keys] :
        \A i, j \in 1..Cardinality(keys) : o[i] = o[j] => i = j}

\* key=value pairs joined by '&', in the order o
RECURSIVE JoinParams(_, _)
JoinParams(params, o) ==
    IF o = <<>> THEN <<>>
    ELSE <<Head(o), "=">> \o params[Head(o)]
         \o (IF Tail(o) = <<>> THEN <<>> ELSE <<"&">> \o JoinParams(params, Tail(o)))

\* util::convert_map_to_string: the strings it can produce for a map
convert_map_to_string(params) ==
    {JoinParams(params, o) : o \in Orders(DOMAIN params)}

\* str::starts_with("http"): the atoms whose text begins with "http"
HttpWords == {"http", "https"}
starts_with_http(url) == url # <<>> /\ Head(url) \in HttpWords

\* Headers::set: replaces the header of that name, or adds it
HeadersSet(headers, name, value) ==
    SelectSeq(headers, LAMBDA h : h.name # name)
        \o <<[name |-> name, value |-> value]>>

\* StatusCode::is_success as a mutation: no upper end
is_success_open(status) == status >= 200

\* StatusCode::is_success: 200..=299
is_success(status) == status >= 200 /\ status <= 299

\* serde_json::from_str::<T>: Some(value) when the text has the shape of
\* T, an error otherwise (the empty text is never valid JSON)
from_str(T, input) == IF input = T THEN Some(input) ELSE NoneV

\* Spotify::convert_result
convert_result(T, input) == from_str(T, input)

\* Result::unwrap_or_default on Result<String>: the body, or "" on Err
unwrap_or_default(result) == IF result.tag = "Ok" THEN result.body ELSE ""

VARIABLES idKind, idIn, idOp, idOut,
          client, built, panicked, mgrToken, mgrRequests, dispatched,
          op, opArgs, call, request, net, outcome, ret

idVars == <<idKind, idIn, idOp, idOut>>
clientVars == <<client, built, panicked, mgrToken, mgrRequests, dispatched,
                op, opArgs, call, request, net, outcome, ret>>
vars == <<idKind, idIn, idOp, idOut,
          client, built, panicked, mgrToken, mgrRequests, dispatched,
          op, opArgs, call, request, net, outcome, ret>>

\* Spotify::default()
default ==
    [prefix |-> DefaultPrefix,
     access_token |-> None,
     client_credentials_manager |-> None]

\* the client side of a state in which nothing was called yet
InitClient ==
    /\ client = default
    /\ built = FALSE
    /\ panicked = None
    /\ mgrToken = "tokA"
    /\ mgrRequests = 0
    /\ dispatched = 0
    /\ op = None
    /\ opArgs = NoneV
    /\ call = NoneV
    /\ request = NoneV
    /\ net = NoneV
    /\ outcome = NoneV
    /\ ret = NoneV

\* the resolver side of a state in which only the client is exercised
IdleId ==
    /\ idKind = "Track"
    /\ idIn = <<>>
    /\ idOp = "none"
    /\ idOut = <<>>

\* ---------------------------------------------- the identifier resolver
InitId ==
    /\ idKind \in IdKinds
    /\ idIn \in StringsUpTo(IdAtoms, MaxLen)
    /\ idOp = "none"
    /\ idOut = <<>>
    /\ InitClient

\* a caller resolves idIn against idKind
GetId ==
    /\ idOp = "none"
    /\ idOp' = "get_id"
    /\ idOut' = get_id(idKind, idIn)
    /\ UNCHANGED <<idKind, idIn>>
    /\ UNCHANGED clientVars

\* a caller composes the URI of idIn
GetUri ==
    /\ idOp = "none"
    /\ idOp' = "get_uri"
    /\ idOut' = get_uri(idKind, idIn)
    /\ UNCHANGED <<idKind, idIn>>
    /\ UNCHANGED clientVars

\* a caller resolves the URI that get_uri composed
ResolveUri ==
    /\ idOp = "get_uri"
    /\ idOp' = "get_uri_get_id"
    /\ idOut' = get_id(idKind, idOut)
    /\ UNCHANGED <<idKind, idIn>>
    /\ UNCHANGED clientVars

NextId == GetId \/ GetUri \/ ResolveUri

SpecId == InitId /\ [][NextId]_vars

\* ------------------------------------------------------------ the client
\* identifiers, user ids and paging arguments callers pass to the endpoints
EndpointIds == {<<"x">>, <<"spotify", ":", "track", ":", "x">>}
UserIds == {<<"u">>}
Pagings ==
    {[limit |-> NoneV, offset |-> NoneV], [limit |-> Some(20), offset |-> Some(5)]}

\* the (method, url, payload) triples handed to internal_call directly
AbsoluteUrl == <<"https", ":", "/", "/", "localhost", "/", "me">>
Calls ==
    {[method |-> "Get", url |-> <<"me">>, payload |-> EmptyObject],
     [method |-> "Post", url |-> AbsoluteUrl, payload |-> [k \in {"name"} |-> <<"x">>]],
     [method |-> "Put", url |-> <<"me">>, payload |-> [k \in {"name"} |-> <<"x">>]],
     [method |-> "Delete", url |-> AbsoluteUrl, payload |-> EmptyObject]}

\* Spotify::prefix
Prefix(prefix) ==
    /\ panicked = None
    /\ client' = [client EXCEPT !.prefix = prefix]
    /\ UNCHANGED <<built, panicked, mgrToken, mgrRequests, dispatched,
                   op, opArgs, call, request, net, outcome, ret>>
    /\ UNCHANGED idVars

\* Spotify::access_token
AccessToken(access_token) ==
    /\ panicked = None
    /\ client' = [client EXCEPT !.access_token = access_token]
    /\ UNCHANGED <<built, panicked, mgrToken, mgrRequests, dispatched,
                   op, opArgs, call, request, net, outcome, ret>>
    /\ UNCHANGED idVars

\* Spotify::client_credentials_manager
ClientCredentialsManager(manager) ==
    /\ panicked = None
    /\ client' = [client EXCEPT !.client_credentials_manager = manager]
    /\ UNCHANGED <<built, panicked, mgrToken, mgrRequests, dispatched,
                   op, opArgs, call, request, net, outcome, ret>>
    /\ UNCHANGED idVars

\* Spotify::build as a mutation: the auth sources are not looked at
Build_unchecked ==
    /\ panicked = None
    /\ built' = TRUE
    /\ UNCHANGED <<client, panicked, mgrToken, mgrRequests, dispatched,
                   op, opArgs, call, request, net, outcome, ret>>
    /\ UNCHANGED idVars

\* Spotify::build
Build ==
    /\ panicked = None
    /\ IF client.access_token = None /\ client.client_credentials_manager = None
       THEN /\ panicked' = "access_token and client_credentials_manager are none!!!"
            /\ UNCHANGED built
       ELSE /\ built' = TRUE
            /\ UNCHANGED panicked
    /\ UNCHANGED <<client, mgrToken, mgrRequests, dispatched,
                   op, opArgs, call, request, net, outcome, ret>>
    /\ UNCHANGED idVars

\* the credentials manager replaces its token (it expired); this happens
\* inside SpotifyClientCredentials, outside the client
TokenRefresh ==
    /\ panicked = None
    /\ client.client_credentials_manager # None
    /\ mgrToken' \in ManagerTokens \ {mgrToken}
    /\ UNCHANGED <<client, built, panicked, mgrRequests, dispatched,
                   op, opArgs, call, request, net, outcome, ret>>
    /\ UNCHANGED idVars

\* auth_headers as a mutation: the manager is not asked, the token of an
\* earlier call is used
auth_headers_cached(self, tok) ==
    IF self.access_token # None
    THEN [panic |-> None, token |-> self.access_token, consulted |-> 0]
    ELSE IF self.client_credentials_manager # None
         THEN [panic |-> None, token |-> "tokA", consulted |-> 0]
         ELSE [panic |-> "client credentials manager is none",
               token |-> None, consulted |-> 0]

\* Spotify::auth_headers; tok is what get_access_token() returns now,
\* consulted the number of get_access_token() requests made
auth_headers(self, tok) ==
    IF self.access_token # None
    THEN [panic |-> None, token |-> self.access_token, consulted |-> 0]
    ELSE IF self.client_credentials_manager # None
         THEN [panic |-> None, token |-> tok, consulted |-> 1]
         ELSE [panic |-> "client credentials manager is none",
               token |-> None, consulted |-> 0]

\* Spotify::internal_call; n is what the transport does with the request
internal_call(self, tok, method, url, payload, n) ==
    LET full == IF ~starts_with_http(url)
                THEN <<"https", ":", "/", "/", "api.spotify.com", "/", "v1", "/">> \o url
                ELSE url
        auth == auth_headers(self, tok)
        headers == HeadersSet(HeadersSet(<<>>, "Authorization", <<"Bearer", auth.token>>),
                              "Content-Type", <<"application/json">>)
        req == [tag |-> "Request", method |-> method, url |-> full,
                headers |-> HeadersSet(headers, "Content-Type", <<"application/json">>),
                body |-> payload]
        args == [tag |-> "Call", method |-> method, url |-> url, payload |-> payload]
    IN IF auth.panic # None
       THEN [call |-> args, panic |-> auth.panic, consulted |-> 0,
             request |-> NoneV, net |-> NoneV, result |-> NoneV]
       ELSE IF n.kind = "send_failed"
       THEN [call |-> args, panic |-> "send request failed", consulted |-> auth.consulted,
             request |-> req, net |-> n, result |-> NoneV]
       ELSE IF n.kind = "read_failed"
       THEN [call |-> args, panic |-> "failed to read response", consulted |-> auth.consulted,
             request |-> req, net |-> n, result |-> NoneV]
       ELSE IF is_success(n.status)
       THEN [call |-> args, panic |-> None, consulted |-> auth.consulted,
             request |-> req, net |-> n,
             result |-> [tag |-> "Ok", body |-> n.body]]
       ELSE [call |-> args, panic |-> None, consulted |-> auth.consulted,
             request |-> req, net |-> n,
             result |-> [tag |-> "Err", status |-> n.status, body |-> n.body]]

\* Spotify::get: the outcomes it can have, one per way the parameters can
\* be listed
get(self, tok, url, params, n) ==
    IF DOMAIN params # {}
    THEN {internal_call(self, tok, "Get", url \o <<"?">> \o param, EmptyObject, n) :
            param \in convert_map_to_string(params)}
    ELSE {internal_call(self, tok, "Get", url, EmptyObject, n)}

\* Spotify::post
post(self, tok, url, payload, n) == internal_call(self, tok, "Post", url, payload, n)

\* Spotify::put
put(self, tok, url, payload, n) == internal_call(self, tok, "Put", url, payload, n)

\* Spotify::delete
delete(self, tok, url, payload, n) == internal_call(self, tok, "Delete", url, payload, n)

\* the state after the operation name ran internal_call with outcome c and,
\* if the process did not panic, returned value
Finish(name, c, value) ==
    /\ op' = name
    /\ call' = c.call
    /\ request' = c.request
    /\ net' = c.net
    /\ outcome' = c.result
    /\ panicked' = c.panic
    /\ mgrRequests' = mgrRequests + c.consulted
    /\ dispatched' = dispatched + (IF c.request.tag = "Request" THEN 1 ELSE 0)
    /\ ret' = IF c.panic # None THEN NoneV ELSE Some(value)
    /\ UNCHANGED <<client, built, mgrToken>>
    /\ UNCHANGED idVars

\* an operation can start: the process is alive
CanCall == panicked = None /\ dispatched < MaxCalls

\* the body shared by the read endpoints: get, unwrap_or_default,
\* convert_result::<T>
ReadEndpoint(name, url, params, T, n) ==
    \E c \in get(client, mgrToken, url, params, n) :
        Finish(name, c, convert_result(T, unwrap_or_default(c.result)))

\* Spotify::track
Track(track_id, n) ==
    /\ CanCall
    /\ LET trid == get_id("Track", track_id)
       IN ReadEndpoint("track", <<"tracks", "/">> \o trid, NoParams, "FullTrack", n)
    /\ opArgs' = [id |-> track_id]

\* Spotify::artist
Artist(artist_id, n) ==
    /\ CanCall
    /\ LET trid == get_id("Artist", artist_id)
       IN ReadEndpoint("artist", <<"artists", "/">> \o trid, NoParams, "FullArtist", n)
    /\ opArgs' = [id |-> artist_id]

\* Spotify::album
Album(album_id, n) ==
    /\ CanCall
    /\ LET trid == get_id("Album", album_id)
       IN ReadEndpoint("album", <<"albums", "/">> \o trid, NoParams, "FullAlbum", n)
    /\ opArgs' = [id |-> album_id]

\* Spotify::album_track
AlbumTrack(album_id, limit, offset, n) ==
    /\ CanCall
    /\ LET trid == get_id("Album", album_id)
           url == <<"albums", "/">> \o trid \o <<"/", "tracks">>
           params == [k \in {"limit", "offset"} |->
                        IF k = "limit" THEN to_string(unwrap_or(limit, 50))
                        ELSE to_string(unwrap_or(offset, 0))]
       IN ReadEndpoint("album_track", url, params, "Page", n)
    /\ opArgs' = [id |-> album_id, limit |-> limit, offset |-> offset]

\* Spotify::user
User(user_id, n) ==
    /\ CanCall
    /\ ReadEndpoint("user", <<"users", "/">> \o user_id, NoParams, "PublicUser", n)
    /\ opArgs' = [user_id |-> user_id]

\* Spotify::user_playlists
UserPlaylists(user_id, limit, offset, n) ==
    /\ CanCall
    /\ LET url == <<"users", "/">> \o user_id \o <<"/", "playlists">>
           params == [k \in {"limit", "offset"} |->
                        IF k = "limit" THEN to_string(unwrap_or(limit, 50))
                        ELSE to_string(unwrap_or(offset, 0))]
       IN ReadEndpoint("user_playlists", url, params, "Page", n)
    /\ opArgs' = [user_id |-> user_id, limit |-> limit, offset |-> offset]

\* Spotify::unfollow_user_playlist
UnfollowUserPlaylist(user_id, playlist_id, n) ==
    /\ CanCall
    /\ LET url == <<"users", "/">> \o user_id \o <<"/", "playlists", "/">>
                    \o playlist_id \o <<"/", "followers">>
           c == delete(client, mgrToken, url, EmptyObject, n)
       IN Finish("unfollow_user_playlist", c, c.result)
    /\ opArgs' = [user_id |-> user_id, id |-> playlist_id]

\* Spotify::internal_call, called with a method, a path or URL and a
\* payload of the caller's choice
InternalCall(method, url, payload, n) ==
    /\ CanCall
    /\ LET c == internal_call(client, mgrToken, method, url, payload, n)
       IN Finish("internal_call", c, c.result)
    /\ opArgs' = [method |-> method, url |-> url, payload |-> payload]

\* ------------------------------------------------ the remaining endpoints
\* AlbumType::as_str: the token of an album type
album_type_as_str(t) ==
    CASE t = "Album" -> "album"
      [] t = "Single" -> "single"
      [] t = "AppearsOn" -> "appears_on"
      [] t = "Compilation" -> "compilation"

\* the optional arguments callers pass to artist_albums
ArtistAlbumsArgs ==
    {[album_type |-> NoneV, country |-> NoneV, limit |-> NoneV, offset |-> NoneV],
     [album_type |-> NoneV, country |-> NoneV, limit |-> Some(20), offset |-> Some(5)],
     [album_type |-> Some("Album"), country |-> Some(<<"US">>),
      limit |-> NoneV, offset |-> NoneV]}

\* the optional arguments callers pass to user_playlist_tracks
PlaylistTracksArgs ==
    {[fields |-> NoneV, limit |-> NoneV, offset |-> NoneV, market |-> NoneV],
     [fields |-> Some(<<"items">>), limit |-> Some(20), offset |-> NoneV, market |-> NoneV],
     [fields |-> NoneV, limit |-> NoneV, offset |-> Some(5), market |-> Some(<<"US">>)]}

\* the responses the transport gives when only the request matters
NetApi ==
    {[kind |-> "response", status |-> 200, body |-> "{}"],
     [kind |-> "response", status |-> 404, body |-> "FullTrack"]}

\* Spotify::artist_albums
ArtistAlbums(artist_id, album_type, country, limit, offset, n) ==
    /\ CanCall
    /\ LET keys == (IF limit.tag = "Some" THEN {"limit"} ELSE {})
                   \cup (IF album_type.tag = "Some" THEN {"album_type"} ELSE {})
                   \cup (IF offset.tag = "Some" THEN {"offset"} ELSE {})
                   \cup (IF country.tag = "Some" THEN {"country"} ELSE {})
           params == [k \in keys |->
                        CASE k = "limit" -> to_string(limit.value)
                          [] k = "album_type" -> <<album_type_as_str(album_type.value)>>
                          [] k = "offset" -> to_string(offset.value)
                          [] k = "country" -> country.value]
           trid == get_id("Artist", artist_id)
           url == <<"artists", "/">> \o trid \o <<"/", "albums">>
       IN ReadEndpoint("artist_albums", url, params, "Page", n)
    /\ opArgs' = [id |-> artist_id, album_type |-> album_type, country |-> country,
                  limit |-> limit, offset |-> offset]

\* Spotify::current_user_playlists
CurrentUserPlaylists(limit, offset, n) ==
    /\ CanCall
    /\ LET params == [k \in {"limit", "offset"} |->
                        IF k = "limit" THEN to_string(unwrap_or(limit, 50))
                        ELSE to_string(unwrap_or(offset, 0))]
       IN ReadEndpoint("current_user_playlists", <<"me", "/", "playlists">>,
                       params, "Page", n)
    /\ opArgs' = [limit |-> limit, offset |-> offset]

\* Spotify::user_playlist_tracks
UserPlaylistTracks(user_id, playlist_id, fields, limit, offset, market, n) ==
    /\ CanCall
    /\ LET keys == {"limit", "offset"}
                   \cup (IF market.tag = "Some" THEN {"market"} ELSE {})
                   \cup (IF fields.tag = "Some" THEN {"fields"} ELSE {})
           params == [k \in keys |->
                        CASE k = "limit" -> to_string(unwrap_or(limit, 50))
                          [] k = "offset" -> to_string(unwrap_or(offset, 0))
                          [] k = "market" -> market.value
                          [] k = "fields" -> fields.value]
           plid == get_id("Playlist", playlist_id)
           url == <<"users", "/">> \o user_id \o <<"/", "playlists", "/">>
                    \o plid \o <<"/", "tracks">>
       IN ReadEndpoint("user_playlist_tracks", url, params, "Page", n)
    /\ opArgs' = [user_id |-> user_id, id |-> playlist_id, fields |-> fields,
                  limit |-> limit, offset |-> offset, market |-> market]

\* the lists of identifiers callers pass to tracks, artists, albums and
\* add_tracks_to_playlist, and the optional market / fields / position
IdLists == {<<<<"x">>>>, <<<<"x">>, <<"spotify", ":", "track", ":", "y">>>>}
Markets == {NoneV, Some(<<"US">>)}

\* [T]::join(sep) on strings
RECURSIVE join(_, _)
join(strs, sep) ==
    IF strs = <<>> THEN <<>>
    ELSE IF Len(strs) = 1 THEN strs[1]
    ELSE strs[1] \o <<sep>> \o join(Tail(strs), sep)

\* the loop ids.push(self.get_id(_type, &mut id)) over a list of ids
get_ids(_type, list) == [i \in 1..Len(list) |-> get_id(_type, list[i])]

\* Spotify::tracks
Tracks(track_ids, market, n) ==
    /\ CanCall
    /\ LET ids == get_ids("Track", track_ids)
           url == <<"tracks", "/", "?", "ids", "=">> \o join(ids, ",")
           params == [k \in (IF market.tag = "Some" THEN {"market"} ELSE {}) |->
                        market.value]
       IN ReadEndpoint("tracks", url, params, "FullTracks", n)
    /\ opArgs' = [ids |-> track_ids, market |-> market]

\* Spotify::artists
Artists(artist_ids, n) ==
    /\ CanCall
    /\ LET ids == get_ids("Artist", artist_ids)
           url == <<"artists", "/", "?", "ids", "=">> \o join(ids, ",")
       IN ReadEndpoint("artists", url, NoParams, "FullArtists", n)
    /\ opArgs' = [ids |-> artist_ids]

\* Spotify::albums
Albums(album_ids, n) ==
    /\ CanCall
    /\ LET ids == get_ids("Album", album_ids)
           url == <<"albums", "/", "?", "ids", "=">> \o join(ids, ",")
       IN ReadEndpoint("albums", url, NoParams, "FullAlbums", n)
    /\ opArgs' = [ids |-> album_ids]

\* Spotify::artist_top_tracks
ArtistTopTracks(artist_id, country, n) ==
    /\ CanCall
    /\ LET params == [k \in {"country"} |-> unwrap_or(country, <<"US">>)]
           trid == get_id("Artist", artist_id)
           url == <<"artists", "/">> \o trid \o <<"/", "top-tracks">>
       IN \E c \in get(client, mgrToken, url, params, n) :
              Finish("artist_top_tracks", c,
                     IF c.result.tag = "Ok"
                     THEN from_str("FullTracks", c.result.body)
                     ELSE NoneV)
    /\ opArgs' = [id |-> artist_id, country |-> country]

\* Spotify::artist_related_artists
ArtistRelatedArtists(artist_id, n) ==
    /\ CanCall
    /\ LET trid == get_id("Artist", artist_id)
           url == <<"artists", "/">> \o trid \o <<"/", "related-artists">>
       IN ReadEndpoint("artist_related_artists", url, NoParams, "FullArtists", n)
    /\ opArgs' = [id |-> artist_id]

\* Spotify::user_playlist
UserPlaylist(user_id, playlist_id, fields, n) ==
    /\ CanCall
    /\ LET params == [k \in (IF fields.tag = "Some" THEN {"fields"} ELSE {}) |->
                        fields.value]
           url == IF playlist_id.tag = "Some"
                  THEN <<"users", "/">> \o user_id \o <<"/", "playlists", "/">>
                         \o get_id("Playlist", playlist_id.value)
                  ELSE <<"users", "/">> \o user_id \o <<"/", "starred">>
       IN ReadEndpoint("user_playlist", url, params, "FullPlaylist", n)
    /\ opArgs' = [user_id |-> user_id, id |-> playlist_id, fields |-> fields]

\* the optional position callers pass to add_tracks_to_playlist
Positions == {NoneV, Some(0)}

\* serde_json::Value: a JSON string and a JSON number
JString(str) == [tag |-> "String", value |-> str]
JNumber(n) == [tag |-> "Number", value |-> n]

\* Iterator::collect::<String>: the strings one after the other
RECURSIVE concat(_)
concat(strs) ==
    IF strs = <<>> THEN <<>> ELSE Head(strs) \o concat(Tail(strs))

\* Spotify::add_tracks_to_playlist
AddTracksToPlaylist(user_id, playlist_id, track_ids, position, n) ==
    /\ CanCall
    /\ LET plid == get_id("Playlist", playlist_id)
           uris == concat([i \in 1..Len(track_ids) |-> get_uri("Track", track_ids[i])])
           keys == (IF position.tag = "Some" THEN {"position"} ELSE {}) \cup {"uris"}
           params == [k \in keys |->
                        IF k = "position" THEN JNumber(position.value) ELSE JString(uris)]
           url == <<"users", "/">> \o user_id \o <<"/", "playlists", "/">>
                    \o plid \o <<"/", "tracks">>
           c == post(client, mgrToken, url, params, n)
       IN Finish("add_tracks_to_playlist", c,
                 convert_result("CUDResult", unwrap_or_default(c.result)))
    /\ opArgs' = [user_id |-> user_id, id |-> playlist_id, ids |-> track_ids,
                  position |-> position]

Init == IdleId /\ InitClient

Next ==
    \/ \E prefix \in Prefixes : Prefix(prefix)
    \/ \E access_token \in StaticTokens : AccessToken(access_token)
    \/ ClientCredentialsManager("manager")
    \/ Build
    \/ TokenRefresh
    \/ \E id \in EndpointIds, n \in Net : Track(id, n)
    \/ \E id \in EndpointIds, n \in Net : Artist(id, n)
    \/ \E id \in EndpointIds, n \in Net : Album(id, n)
    \/ \E id \in EndpointIds, p \in Pagings, n \in Net :
            AlbumTrack(id, p.limit, p.offset, n)
    \/ \E user_id \in UserIds, n \in Net : User(user_id, n)
    \/ \E user_id \in UserIds, p \in Pagings, n \in Net :
            UserPlaylists(user_id, p.limit, p.offset, n)
    \/ \E user_id \in UserIds, id \in EndpointIds, n \in Net :
            UnfollowUserPlaylist(user_id, id, n)
    \/ \E c \in Calls, n \in Net : InternalCall(c.method, c.url, c.payload, n)

Spec == Init /\ [][Next]_vars

\* the endpoint methods, called on a client that is being configured, with
\* responses drawn from NetApi
NextApi ==
    \/ \E access_token \in StaticTokens : AccessToken(access_token)
    \/ ClientCredentialsManager("manager")
    \/ Build
    \/ \E id \in EndpointIds, p \in Pagings, n \in NetApi :
            AlbumTrack(id, p.limit, p.offset, n)
    \/ \E user_id \in UserIds, p \in Pagings, n \in NetApi :
            UserPlaylists(user_id, p.limit, p.offset, n)
    \/ \E id \in EndpointIds, a \in ArtistAlbumsArgs, n \in NetApi :
            ArtistAlbums(id, a.album_type, a.country, a.limit, a.offset, n)
    \/ \E p \in Pagings, n \in NetApi : CurrentUserPlaylists(p.limit, p.offset, n)
    \/ \E user_id \in UserIds, id \in EndpointIds, a \in PlaylistTracksArgs, n \in NetApi :
            UserPlaylistTracks(user_id, id, a.fields, a.limit, a.offset, a.market, n)
    \/ \E id \in EndpointIds, n \in NetApi : Track(id, n)
    \/ \E id \in EndpointIds, n \in NetApi : Artist(id, n)
    \/ \E id \in EndpointIds, n \in NetApi : Album(id, n)
    \/ \E user_id \in UserIds, n \in NetApi : User(user_id, n)
    \/ \E ids \in IdLists, market \in Markets, n \in NetApi : Tracks(ids, market, n)
    \/ \E ids \in IdLists, n \in NetApi : Artists(ids, n)
    \/ \E ids \in IdLists, n \in NetApi : Albums(ids, n)
    \/ \E id \in EndpointIds, country \in Markets, n \in NetApi :
            ArtistTopTracks(id, country, n)
    \/ \E id \in EndpointIds, n \in NetApi : ArtistRelatedArtists(id, n)
    \/ \E user_id \in UserIds, id \in {NoneV, Some(<<"x">>)}, fields \in {NoneV, Some(<<"items">>)},
          n \in NetApi :
            UserPlaylist(user_id, id, fields, n)
    \/ \E user_id \in UserIds, id \in EndpointIds, ids \in IdLists,
          position \in Positions, n \in NetApi :
            AddTracksToPlaylist(user_id, id, ids, position, n)

SpecApi == Init /\ [][NextApi]_vars

\* ------------------------------------------------------------ properties
\* the word atoms: every atom that is not the delimiter ":" or "/"
IsWord(a) == a \notin {":", "/"}

\* raw has the form delimited by d: at least 3 segments
HasForm(raw, d) == Len(split(raw, d)) >= 3

\* the kind tag of the form delimited by d: the second-to-last segment
KindTag(raw, d) == split(raw, d)[Len(split(raw, d)) - 1]

\* the form delimited by d is present and names another kind than k
Mismatch(k, raw, d) == HasForm(raw, d) /\ KindTag(raw, d) # <<as_str(k)>>

\* the form delimited by d is present and names the kind k
Match(k, raw, d) == HasForm(raw, d) /\ KindTag(raw, d) = <<as_str(k)>>

\* raw is w d token(k) d X for a word w: the wrapped form of the id X
Wraps(k, raw, d) ==
    /\ Len(raw) >= 4
    /\ IsWord(raw[1])
    /\ raw[2] = d
    /\ raw[3] = as_str(k)
    /\ raw[4] = d

\* the id X that a wrapped form wraps
Wrapped(raw) == SubSeq(raw, 5, Len(raw))

\* C1 as stated: whenever the URI form or the URL form of raw has at least 3
\* segments and a kind tag different from K's token, get_id(K, raw) is raw.
C1_MismatchReturnsRaw ==
    (idOp = "get_id" /\ (Mismatch(idKind, idIn, ":") \/ Mismatch(idKind, idIn, "/")))
        => idOut = idIn

\* C1 amended: whenever one form of raw is present with a kind tag different
\* from K's token and the other form does not name K either (it has fewer
\* than 3 segments or its kind tag differs too), get_id(K, raw) is raw.
C1_MismatchNoMatchReturnsRaw ==
    (/\ idOp = "get_id"
     /\ Mismatch(idKind, idIn, ":") \/ Mismatch(idKind, idIn, "/")
     /\ ~Match(idKind, idIn, ":")
     /\ ~Match(idKind, idIn, "/"))
        => idOut = idIn

\* get_id(Artist, "x:track:x") returned "x:track:x"
C1_Witness ==
    /\ idOp = "get_id"
    /\ idKind = "Artist"
    /\ idIn = <<"x", ":", "track", ":", "x">>
    /\ idOut = idIn

\* C2 as stated: for every kind K and every id string X,
\* get_id(K, svc ":" token(K) ":" X) is X.
C2_UriYieldsId ==
    (idOp = "get_id" /\ Wraps(idKind, idIn, ":")) => idOut = Wrapped(idIn)

\* C2 amended: for every kind K and every id string X that contains no ':',
\* get_id(K, svc ":" token(K) ":" X) is X.
C2_UriYieldsColonFreeId ==
    (idOp = "get_id" /\ Wraps(idKind, idIn, ":") /\ Count(Wrapped(idIn), ":") = 0)
        => idOut = Wrapped(idIn)

\* get_id(Artist, "x:artist:x/x") returned "x/x"
C2_Witness ==
    /\ idOp = "get_id"
    /\ idKind = "Artist"
    /\ idIn = <<"x", ":", "artist", ":", "x", "/", "x">>
    /\ idOut = <<"x", "/", "x">>

\* C3 as stated: for every kind K and every id string X,
\* get_id(K, svc "/" token(K) "/" X) is X.
C3_UrlYieldsId ==
    (idOp = "get_id" /\ Wraps(idKind, idIn, "/")) => idOut = Wrapped(idIn)

\* C3 amended: for every kind K and every id string X that contains no '/'
\* and for which the URI form of the whole string does not name K (splitting
\* it on ':' gives fewer than 3 segments or a kind tag other than K's
\* token), get_id(K, svc "/" token(K) "/" X) is X.
C3_UrlYieldsSlashFreeId ==
    (/\ idOp = "get_id"
     /\ Wraps(idKind, idIn, "/")
     /\ Count(Wrapped(idIn), "/") = 0
     /\ ~Match(idKind, idIn, ":"))
        => idOut = Wrapped(idIn)

\* get_id(Track, "x/track/x:x") returned "x:x"
C3_Witness ==
    /\ idOp = "get_id"
    /\ idKind = "Track"
    /\ idIn = <<"x", "/", "track", "/", "x", ":", "x">>
    /\ idOut = <<"x", ":", "x">>

\* C4: a string with fewer than 3 segments on ':' and fewer than 3 segments
\* on '/' is a bare id: get_id(K, raw) is raw.
C4_FewSegmentsIsBareId ==
    (idOp = "get_id" /\ ~HasForm(idIn, ":") /\ ~HasForm(idIn, "/"))
        => idOut = idIn

\* get_id(Track, "track:x/x") returned "track:x/x": one ':' and one '/'
C4_Witness ==
    /\ idOp = "get_id"
    /\ idKind = "Track"
    /\ idIn = <<"track", ":", "x", "/", "x">>
    /\ idOut = idIn

\* a string without ':' and '/'
DelimiterFree(s) == Count(s, ":") = 0 /\ Count(s, "/") = 0

\* X ends in d "track" d c with c delimiter-free
EndsInTrack(X, d) ==
    \E n \in 0..Len(X) :
        /\ Len(X) >= n + 3
        /\ DelimiterFree(SubSeq(X, Len(X) - n + 1, Len(X)))
        /\ X[Len(X) - n] = d
        /\ X[Len(X) - n - 1] = "track"
        /\ X[Len(X) - n - 2] = d

\* a non-malformed track identifier: a bare id, a track URI
\* scheme:track:id, or a track URL .../track/id
NonMalformed(X) ==
    \/ DelimiterFree(X)
    \/ Len(X) >= 4 /\ IsWord(X[1]) /\ Len(split(X, ":")) = 3 /\ EndsInTrack(X, ":")
    \/ EndsInTrack(X, "/")

\* C5: for every non-malformed X, get_uri(Track, X) is "spotify:track:"
\* followed by get_id(Track, X), and resolving that URI against Track gives
\* get_id(Track, X) back.
C5_UriRoundTrip ==
    (idKind = "Track" /\ NonMalformed(idIn)) =>
        /\ idOp = "get_uri" =>
               idOut = <<"spotify", ":", "track", ":">> \o get_id("Track", idIn)
        /\ idOp = "get_uri_get_id" => idOut = get_id("Track", idIn)

\* the URL "x/track/x" was composed to a URI and resolved back to "x"
C5_Witness ==
    /\ idOp = "get_uri_get_id"
    /\ idKind = "Track"
    /\ idIn = <<"x", "/", "track", "/", "x">>
    /\ idOut = <<"x">>

\* the request of the last operation was handed to the transport
Sent == op # None /\ request.tag = "Request"

\* a status in 200..299
In2xx(status) == status >= 200 /\ status <= 299

\* C6: whenever a response (status, body) came back, internal_call returned
\* Ok(body) with that body if the status is in 200..299 and otherwise an
\* error carrying that status and that body; so Ok iff 2xx.
C6_StatusDecides ==
    (Sent /\ net.kind = "response") =>
        /\ panicked = None
        /\ IF In2xx(net.status)
           THEN outcome = [tag |-> "Ok", body |-> net.body]
           ELSE outcome = [tag |-> "Err", status |-> net.status, body |-> net.body]

\* a POST answered with status 300 came back as an error with that status
C6_Witness ==
    /\ op = "internal_call"
    /\ request.tag = "Request"
    /\ request.method = "Post"
    /\ net.kind = "response"
    /\ net.status = 300
    /\ outcome = [tag |-> "Err", status |-> 300, body |-> "FullTrack"]

\* a URL that begins with an absolute-URL scheme
IsAbsolute(url) ==
    /\ Len(url) >= 4
    /\ url[1] \in {"http", "https"}
    /\ SubSeq(url, 2, 4) = <<":", "/", "/">>

\* C7: the URL of every request internal_call sends is the client's
\* configured base URL followed by the path it was given, or the given URL
\* itself when that is absolute.
C7_RequestUsesConfiguredPrefix ==
    [][dispatched' = dispatched + 1 =>
           request'.url = IF IsAbsolute(call'.url)
                          THEN call'.url
                          ELSE client.prefix \o call'.url]_vars

\* C8: when sending fails or reading the body fails, internal_call returns
\* an error to its caller and the process goes on.
C8_NetworkFailureIsErr ==
    (Sent /\ net.kind \in {"send_failed", "read_failed"}) =>
        /\ panicked = None
        /\ outcome.tag = "Err"

\* the read endpoints and the schema each decodes into
ReadOps == {"track", "artist", "album", "album_track", "user", "user_playlists"}
SchemaOf(name) ==
    CASE name = "track" -> "FullTrack"
      [] name = "artist" -> "FullArtist"
      [] name = "album" -> "FullAlbum"
      [] name = "album_track" -> "Page"
      [] name = "user" -> "PublicUser"
      [] name = "user_playlists" -> "Page"

\* C9: a read endpoint whose request was dispatched returns to its caller:
\* None when the call failed (transport failure or a status outside
\* 200..299) or the body does not have the shape of the schema, Some(value)
\* otherwise; it never crashes.
C9_ReadEndpointAbsentOnFailure ==
    (Sent /\ op \in ReadOps) =>
        /\ panicked = None
        /\ ret.tag = "Some"
        /\ IF /\ net.kind = "response"
              /\ In2xx(net.status)
              /\ net.body = SchemaOf(op)
           THEN ret.value = Some(net.body)
           ELSE ret.value = NoneV

\* the Authorization headers of a request
AuthHeaders(r) ==
    {i \in DOMAIN r.headers : r.headers[i].name = "Authorization"}

\* C10: every request sent carries exactly one Authorization header, the
\* Bearer token being the static token if one is configured and otherwise
\* the token the credentials manager gives at that call, and a JSON content
\* type; the manager is asked exactly once per call of a client without a
\* static token and never otherwise; the call leaves the client as it was.
C10_FreshBearerPerCall ==
    [][/\ dispatched' = dispatched + 1 =>
           /\ Cardinality(AuthHeaders(request')) = 1
           /\ \A i \in AuthHeaders(request') :
                  request'.headers[i].value =
                      <<"Bearer", IF client.access_token # None
                                  THEN client.access_token
                                  ELSE mgrToken>>
           /\ \E i \in DOMAIN request'.headers :
                  request'.headers[i] =
                      [name |-> "Content-Type", value |-> <<"application/json">>]
           /\ mgrRequests' = mgrRequests + (IF client.access_token = None THEN 1 ELSE 0)
           /\ client' = client
       /\ dispatched' = dispatched => mgrRequests' = mgrRequests]_vars

\* two calls through a client with only a credentials manager: the manager
\* was asked twice, and the second request carries the refreshed token
C10_Witness ==
    /\ dispatched = 2
    /\ mgrRequests = 2
    /\ client.access_token = None
    /\ request.tag = "Request"
    /\ \E i \in DOMAIN request.headers :
           request.headers[i] = [name |-> "Authorization", value |-> <<"Bearer", "tokB">>]

\* the endpoints that take limit and offset
PagingOps ==
    {"artist_albums", "album_track", "current_user_playlists",
     "user_playlists", "user_playlist_tracks"}

\* the key=value pairs of the query string of a URL: what follows the last
\* '?', split on '&'
QueryPairs(url) ==
    IF Count(url, "?") = 0 THEN {}
    ELSE LET query == split(url, "?")[Len(split(url, "?"))]
         IN {split(query, "&")[i] : i \in 1..Len(split(query, "&"))}

\* C11: every endpoint that takes limit and offset dispatches a GET whose
\* query string contains limit=<limit> and offset=<offset>, with 50 and 0 in
\* place of a value that was not supplied.
C11_PagingDefaults ==
    (Sent /\ op \in PagingOps) =>
        /\ request.method = "Get"
        /\ <<"limit", "=">> \o to_string(unwrap_or(opArgs.limit, 50))
              \in QueryPairs(request.url)
        /\ <<"offset", "=">> \o to_string(unwrap_or(opArgs.offset, 0))
              \in QueryPairs(request.url)

\* the client has a static token or a credentials manager
HasAuthSource(c) == c.access_token # None \/ c.client_credentials_manager # None

\* C12: build() aborts only on a client with neither a static token nor a
\* credentials manager and never returns such a client; a client that
\* build() returned, whatever builder calls follow, has an auth source, and
\* auth_headers never panics on it.
C12_BuildValidatesAuthSource ==
    /\ panicked = "access_token and client_credentials_manager are none!!!"
          => ~HasAuthSource(client)
    /\ built => HasAuthSource(client)
    /\ built => panicked # "client credentials manager is none"

\* a client with only a credentials manager was built and has dispatched a
\* request, its token coming from the manager
C12_Witness ==
    /\ built
    /\ panicked = None
    /\ client.access_token = None
    /\ client.client_credentials_manager # None
    /\ dispatched >= 1
    /\ mgrRequests >= 1

\* C13: every URL a GET endpoint dispatches contains at most one '?', and
\* every query parameter (every key=value pair, every '&') comes after it:
\* nothing before the '?' holds an '=' or an '&', and what follows it is a
\* list of key=value pairs separated by '&'.
C13_WellFormedQueryUrl ==
    (Sent /\ request.method = "Get" /\ op # "internal_call") =>
        LET parts == split(request.url, "?")
        IN /\ Len(parts) <= 2
           /\ Count(parts[1], "=") = 0
           /\ Count(parts[1], "&") = 0
           /\ Len(parts) = 2 =>
                 \A pair \in QueryPairs(request.url) : Count(pair, "=") = 1

\* the elements a JSON value holds: those of an array, or the value itself
Elements(v) == IF v.tag = "Array" THEN v.value ELSE <<v>>

\* C14: add_tracks_to_playlist posts to users/<user>/playlists/<id>/tracks
\* with <id> the canonical playlist id, and the "uris" field of the body
\* holds, as separate elements in input order, the URI
\* "spotify:track:<canonical id>" of every supplied track id.
C14_UrisAreSeparateElements ==
    (Sent /\ op = "add_tracks_to_playlist") =>
        /\ request.method = "Post"
        /\ call.url = <<"users", "/">> \o opArgs.user_id \o <<"/", "playlists", "/">>
                        \o get_id("Playlist", opArgs.id) \o <<"/", "tracks">>
        /\ "uris" \in DOMAIN request.body
        /\ Elements(request.body["uris"]) =
              [i \in 1..Len(opArgs.ids) |->
                  JString(<<"spotify", ":", "track", ":">>
                              \o get_id("Track", opArgs.ids[i]))]

====
